---- MODULE Spec2Model ----
(***************************************************************************)
(* A model of the Cloudflare DNS record adapter: the plugin's CRUD         *)
(* operations (Create, Read, Update, Delete, Status, List), the client     *)
(* wrapper that builds the per-record-type provider requests, the error    *)
(* classifier and the name normalizer.  The provider is a zone holding     *)
(* records keyed by NativeID; each provider call either succeeds or ends   *)
(* with an error chosen nondeterministically.                              *)
(***************************************************************************)
EXTENDS Integers, Sequences, FiniteSets, TLC

VARIABLES
    apiToken,   \* value of the CLOUDFLARE_API_TOKEN environment variable
    zoneApex, \* provider state: the zone's apex domain
    zone,       \* provider state: NativeID -> record the zone holds
    nextID,     \* provider state: next NativeID the provider assigns
    req,        \* the request of the most recent operation
    res,        \* the result the most recent operation returned
    calls       \* provider API calls issued by the most recent operation, in order

vars == <<apiToken, zoneApex, zone, nextID, req, res, calls>>

----------------------------------------------------------------------------
(* Bounds and value domains *)

\* number of NativeIDs the provider hands out in one behaviour
MaxRecords == 1

IDs == 1..MaxRecords

\* An optional value (a Go pointer, an omitted JSON member, a string that may be
\* empty) is a sequence: <<>> when absent, <<v>> when present.
None == <<>>
Some(v) == <<v>>

\* strings that the code inspects character by character are sequences of characters
AtName == <<"@">>
ShortNames == { AtName, <<"w">>, <<"b">>, <<"a", ".", "b">>, <<"a", ".", "b", ".", "c">> }
ZoneID == "z1"
ZoneDomain == <<"z", ".", "i", "o">>
ZoneDomains == { ZoneDomain, <<"b">>, <<"a", ".", "b">> }

SupportedTypes == {"A", "AAAA", "CNAME", "MX", "TXT", "NS", "CAA", "SRV"}
ProxyableTypes == {"A", "AAAA", "CNAME"}
PriorityTypes == {"MX", "SRV"}

----------------------------------------------------------------------------
(* Errors of a provider call and their classification *)

\* an error value: a provider API error (cf.Error) with its HTTP status, or any other
\* error (transport, parse, SDK precondition); text is whether err.Error() contains
\* "404", "not found" or "does not exist"
ApiError(status, text) == [nil |-> FALSE, api |-> TRUE, status |-> status, text |-> text]
OtherError(text) == [nil |-> FALSE, api |-> FALSE, status |-> 0, text |-> text]

\* the errors a provider call can end with: API errors by status (a 404 mentions
\* itself in its text, the 500 here carries a "not found" message), and errors that
\* are no API error, with and without such a text
ProviderErrors ==
    { ApiError(400, FALSE), ApiError(401, FALSE), ApiError(403, FALSE),
      ApiError(404, TRUE), ApiError(429, FALSE), ApiError(500, TRUE),
      ApiError(503, FALSE), OtherError(TRUE), OtherError(FALSE) }

\* the errors the calls of Create, Update, Read and List draw from
CommonErrors ==
    { ApiError(404, TRUE), ApiError(429, FALSE), ApiError(500, TRUE), OtherError(FALSE) }

\* the nil error of a call that succeeded
Ok == [nil |-> TRUE, api |-> FALSE, status |-> 0, text |-> FALSE]
Outcomes == {Ok} \cup CommonErrors
DeleteOutcomes == {Ok} \cup ProviderErrors

MapErrorCode(err) ==
    IF err = Ok THEN ""
    ELSE IF err.api /\ err.status = 400 THEN "InvalidRequest"
    ELSE IF err.api /\ err.status = 401 THEN "InvalidCredentials"
    ELSE IF err.api /\ err.status = 403 THEN "AccessDenied"
    ELSE IF err.api /\ err.status = 404 THEN "NotFound"
    ELSE IF err.api /\ err.status = 429 THEN "Throttling"
    ELSE IF err.api /\ err.status \in {500, 502, 503, 504} THEN "ServiceInternalError"
    ELSE "InternalFailure"

\* variant: "not found" decided from the error text, as isNotFoundError does
IsNotFound_byText(err) == err # Ok /\ err.text

\* variant: the status compared is the one of IsRateLimited
IsNotFound_as429(err) == err # Ok /\ err.api /\ err.status = 429

IsNotFound(err) ==
    IF err = Ok THEN FALSE
    ELSE IF err.api THEN err.status = 404
    ELSE FALSE

----------------------------------------------------------------------------
(* JSON payloads and their decoding *)

\* A properties payload: a JSON document that is either malformed or an object in
\* which every member may be omitted.
PropsJSON(t, n, c, px, pr, cm) ==
    [wellformed |-> TRUE, zone_id |-> Some(ZoneID), name |-> n, record_type |-> t,
     content |-> c, ttl |-> Some(1), proxied |-> px, comment |-> cm, priority |-> pr]

MalformedJSON ==
    [wellformed |-> FALSE, zone_id |-> None, name |-> None, record_type |-> None,
     content |-> None, ttl |-> None, proxied |-> None, comment |-> None,
     priority |-> None]

\* the value of an optional member, or the Go zero value when it is omitted
OrZero(opt, zero) == IF opt = None THEN zero ELSE opt[1]

\* json.Unmarshal into dnsRecordProperties: omitted members keep the zero value,
\* priority stays a nil pointer
UnmarshalProps(raw) ==
    IF ~raw.wellformed THEN [ok |-> FALSE]
    ELSE [ok |-> TRUE,
          ID |-> IF "id" \in DOMAIN raw THEN raw.id ELSE None,
          ZoneID |-> OrZero(raw.zone_id, ""),
          Name |-> OrZero(raw.name, <<>>),
          RecordType |-> OrZero(raw.record_type, ""),
          Content |-> OrZero(raw.content, ""),
          TTL |-> OrZero(raw.ttl, 0),
          Proxied |-> OrZero(raw.proxied, FALSE),
          Comment |-> OrZero(raw.comment, ""),
          Priority |-> raw.priority]

\* json.Marshal of dnsRecordProperties: id, comment and priority are omitempty
MarshalProps(p) ==
    [wellformed |-> TRUE,
     id |-> p.ID,
     zone_id |-> Some(p.ZoneID),
     name |-> Some(p.Name),
     record_type |-> Some(p.RecordType),
     content |-> Some(p.Content),
     ttl |-> Some(p.TTL),
     proxied |-> Some(p.Proxied),
     comment |-> IF p.Comment = "" THEN None ELSE Some(p.Comment),
     priority |-> p.Priority]

\* A target configuration payload and json.Unmarshal into targetConfig
ConfigJSON(z) == [wellformed |-> TRUE, zone_id |-> z]
MalformedConfig == [wellformed |-> FALSE, zone_id |-> None]

parseTargetConfig(raw) ==
    IF ~raw.wellformed THEN [err |-> TRUE, ZoneID |-> ""]
    ELSE [err |-> FALSE, ZoneID |-> OrZero(raw.zone_id, "")]

----------------------------------------------------------------------------
(* Inputs the host supplies *)

\* the properties payloads the host sends with Create and Update
PropsInputs ==
    \* one property set per record type, with the priority MX and SRV need
    { PropsJSON(Some(t), Some(<<"w">>), Some("c1"), None,
                IF t \in PriorityTypes THEN Some(10) ELSE None, None)
        : t \in SupportedTypes \cup {"PTR"} }
    \cup
    { \* the apex MX record and the proxied apex TXT record
      PropsJSON(Some("MX"), Some(AtName), Some("c1"), None, Some(10), None),
      PropsJSON(Some("TXT"), Some(AtName), Some("c1"), Some(TRUE), None, None),
      \* MX and SRV without a priority, MX with priority 0
      PropsJSON(Some("MX"), Some(<<"w">>), Some("c1"), None, None, None),
      PropsJSON(Some("SRV"), Some(<<"w">>), Some("c1"), None, None, None),
      PropsJSON(Some("MX"), Some(<<"w">>), Some("c1"), None, Some(0), None),
      \* a proxied multi-label A record, and new content and a comment for "w"
      PropsJSON(Some("A"), Some(<<"a", ".", "b">>), Some("c1"), Some(TRUE), None, None),
      PropsJSON(Some("A"), Some(<<"w">>), Some("c2"), Some(FALSE), None, Some("note")),
      MalformedJSON }

ConfigInputs == { ConfigJSON(Some(ZoneID)), ConfigJSON(None), MalformedConfig }

----------------------------------------------------------------------------
(* Name normalization *)

HasSuffix(s, suffix) ==
    /\ Len(s) >= Len(suffix)
    /\ SubSeq(s, Len(s) - Len(suffix) + 1, Len(s)) = suffix

TrimSuffix(s, suffix) ==
    IF HasSuffix(s, suffix) THEN SubSeq(s, 1, Len(s) - Len(suffix)) ELSE s

\* variant: the suffix is stripped but the apex is not mapped to "@"
NormalizeName_noApex(fqdn, zoneDomain) == TrimSuffix(fqdn, <<".">> \o zoneDomain)

\* variant: the suffix compared and stripped lacks the separating dot
NormalizeName_noDot(fqdn, zoneDomain) ==
    IF fqdn = zoneDomain THEN AtName
    ELSE IF HasSuffix(fqdn, zoneDomain)
         THEN TrimSuffix(fqdn, zoneDomain)
         ELSE fqdn

NormalizeName(fqdn, zoneDomain) ==
    IF fqdn = zoneDomain THEN AtName
    ELSE IF HasSuffix(fqdn, <<".">> \o zoneDomain)
         THEN TrimSuffix(fqdn, <<".">> \o zoneDomain)
         ELSE fqdn

\* the name the provider stores for the short name of a request: the zone domain
\* for "@", name.zone otherwise
Denormalize(shortName, zoneDomain) ==
    IF shortName = AtName THEN zoneDomain ELSE shortName \o <<".">> \o zoneDomain

----------------------------------------------------------------------------
(* The client wrapper: request bodies per record type, responses *)

\* the DNSRecord that Create and Update hand to the client
RecordOf(id, props) ==
    [ID |-> id, ZoneID |-> props.ZoneID, Name |-> props.Name,
     RecordType |-> props.RecordType, Content |-> props.Content, TTL |-> props.TTL,
     Proxied |-> props.Proxied, Comment |-> props.Comment, Priority |-> props.Priority]

BodyOf(record, proxied, priority) ==
    [Name |-> record.Name, Type |-> record.RecordType, Content |-> record.Content,
     TTL |-> record.TTL, Proxied |-> proxied, Comment |-> record.Comment,
     Priority |-> priority]

Unsupported == [err |-> TRUE, body |-> None]

\* the switch over record.RecordType in CreateRecord and UpdateRecord
RecordParam(record) ==
    IF record.RecordType \in {"A", "AAAA", "CNAME"}
    THEN [err |-> FALSE, body |-> Some(BodyOf(record, Some(record.Proxied), None))]
    ELSE IF record.RecordType \in {"TXT", "NS"}
    THEN [err |-> FALSE, body |-> Some(BodyOf(record, None, None))]
    ELSE IF record.RecordType = "MX"
    THEN [err |-> FALSE,
          body |-> Some(BodyOf(record, None,
                               IF record.Priority # None THEN record.Priority
                               ELSE Some(10)))]
    ELSE Unsupported

\* errors.New("unsupported record type: ...") is no provider API error
UnsupportedError == OtherError(FALSE)

\* recordFromResponse: the provider's record as a DNSRecord; a priority of 0 (also
\* the decoded value of an omitted priority) leaves Priority nil
recordFromResponse(id, resp, zoneID) ==
    [ID |-> Some(id), ZoneID |-> zoneID, Name |-> resp.Name, RecordType |-> resp.Type,
     Content |-> resp.Content, TTL |-> resp.TTL, Proxied |-> resp.Proxied,
     Comment |-> resp.Comment,
     Priority |-> IF OrZero(resp.Priority, 0) # 0 THEN resp.Priority ELSE None]

----------------------------------------------------------------------------
(* The provider *)

\* the provider keeps fully-qualified names: the zone domain for the apex "@",
\* name.zone otherwise
ProviderFQDN(name) == Denormalize(name, zoneApex)

\* the record the provider holds after a create or an overwrite with this body
ProviderRecord(body) ==
    [Name |-> ProviderFQDN(body.Name), Type |-> body.Type, Content |-> body.Content,
     TTL |-> body.TTL, Proxied |-> OrZero(body.Proxied, FALSE),
     Comment |-> body.Comment, Priority |-> body.Priority]

Exists(zoneID, id) == zoneID = ZoneID /\ id \in DOMAIN zone

\* what a provider call on one record can answer: success needs the record, and a
\* 404 is not the answer for a record that is there
RecordOutcome(zoneID, id, o) ==
    /\ o = Ok => Exists(zoneID, id)
    /\ (o # Ok /\ o.api /\ o.status = 404) => ~Exists(zoneID, id)

\* one entry of the call log: the SDK method, its arguments and the provider's answer
Call(api, id, body, answer) ==
    [api |-> api, id |-> id, body |-> body, page |-> None, perPage |-> 0,
     answer |-> answer]

----------------------------------------------------------------------------
(* Requests and results *)

Request(op, config, id, props) ==
    [op |-> op, config |-> config, nativeID |-> id, props |-> props,
     pageToken |-> None, pageSize |-> 0]

\* a ProgressResult (Create, Update, Delete, Status); every result is returned
\* together with a Go error: null says the result pointer is nil, err is the error
Progress(op, status, code, id, props) ==
    [op |-> op, status |-> status, errorCode |-> code, nativeID |-> id,
     props |-> props, nativeIDs |-> <<>>, nextPageToken |-> None,
     null |-> FALSE, err |-> Ok]

\* variant: the failure result keeps a NativeID
Failure_withID(op, code) == Progress(op, "Failure", code, Some(1), None)

\* variant: the failure is returned as a Go error, with a nil result
Failure_asError(op, code) ==
    [Progress(op, "", "", None, None) EXCEPT !.null = TRUE, !.err = OtherError(FALSE)]

\* variant: a provider failure is reported with the generic code, whatever the error
Failure_generic(op, code) ==
    Progress(op, "Failure",
             IF code \in {"InvalidRequest", "InvalidCredentials"} THEN code
             ELSE "InternalFailure", None, None)

Failure(op, code) == Progress(op, "Failure", code, None, None)

\* variant: every failed Read reports the generic code
ReadResult_generic(code, props) ==
    [op |-> "Read", status |-> "", errorCode |-> IF code = "" THEN "" ELSE "InternalFailure",
     nativeID |-> None, props |-> props, nativeIDs |-> <<>>, nextPageToken |-> None,
     null |-> FALSE, err |-> Ok]

\* a ReadResult: properties or an error code, no status
ReadResult(code, props) ==
    [op |-> "Read", status |-> "", errorCode |-> code, nativeID |-> None,
     props |-> props, nativeIDs |-> <<>>, nextPageToken |-> None,
     null |-> FALSE, err |-> Ok]

\* cfclient.NewClient fails when CLOUDFLARE_API_TOKEN is empty
NewClientFails == apiToken = ""

----------------------------------------------------------------------------
(* Plugin.Create *)

\* the properties Create and Update report: the record the client returned, with
\* the name of the request
ReportedProps(returned, props) ==
    [ID |-> returned.ID, ZoneID |-> returned.ZoneID, Name |-> props.Name,
     RecordType |-> returned.RecordType, Content |-> returned.Content,
     TTL |-> returned.TTL, Proxied |-> returned.Proxied,
     Comment |-> returned.Comment, Priority |-> returned.Priority]

Create(config, raw) ==
    LET props == UnmarshalProps(raw)
        record == RecordOf(None, props)
        param == RecordParam(record)
        created == recordFromResponse(nextID, ProviderRecord(param.body[1]),
                                      record.ZoneID)
    IN
    /\ req' = Request("Create", config, None, raw)
    /\ UNCHANGED <<apiToken, zoneApex>>
    /\ IF ~props.ok
       THEN /\ res' = Failure("Create", "InvalidRequest")
            /\ calls' = <<>>
            /\ UNCHANGED <<zone, nextID>>
       ELSE IF NewClientFails
       THEN /\ res' = Failure("Create", "InvalidCredentials")
            /\ calls' = <<>>
            /\ UNCHANGED <<zone, nextID>>
       ELSE IF param.err
       THEN /\ res' = Failure("Create", MapErrorCode(UnsupportedError))
            /\ calls' = <<>>
            /\ UNCHANGED <<zone, nextID>>
       ELSE \E o \in Outcomes :
            /\ o = Ok => (record.ZoneID = ZoneID /\ nextID <= MaxRecords)
            /\ calls' = <<Call("Records.New", None, param.body, o)>>
            /\ IF o # Ok
               THEN /\ res' = Failure("Create", MapErrorCode(o))
                    /\ UNCHANGED <<zone, nextID>>
               ELSE /\ zone' = (nextID :> ProviderRecord(param.body[1])) @@ zone
                    /\ nextID' = nextID + 1
                    /\ res' = Progress("Create", "Success", "", created.ID,
                                       Some(MarshalProps(ReportedProps(created, props))))

----------------------------------------------------------------------------
(* Plugin.Read *)

Read(config, id) ==
    LET cfg == parseTargetConfig(config) IN
    /\ req' = Request("Read", config, Some(id), MalformedJSON)
    /\ UNCHANGED <<apiToken, zoneApex, zone, nextID>>
    /\ IF cfg.err \/ cfg.ZoneID = ""
       THEN /\ res' = ReadResult("InvalidRequest", None)
            /\ calls' = <<>>
       ELSE IF NewClientFails
       THEN /\ res' = ReadResult("InvalidCredentials", None)
            /\ calls' = <<>>
       ELSE \E o \in Outcomes :
            /\ RecordOutcome(cfg.ZoneID, id, o)
            /\ IF o # Ok
               THEN /\ calls' = <<Call("Records.Get", Some(id), None, o)>>
                    /\ res' = IF IsNotFound(o) THEN ReadResult("NotFound", None)
                              ELSE ReadResult(MapErrorCode(o), None)
               ELSE \E oz \in Outcomes :
                    LET record == recordFromResponse(id, zone[id], cfg.ZoneID)
                        normalizedName == NormalizeName(record.Name, zoneApex)
                    IN
                    /\ calls' = <<Call("Records.Get", Some(id), None, o),
                                  Call("Zones.Get", None, None, oz)>>
                    /\ res' = IF oz # Ok THEN ReadResult(MapErrorCode(oz), None)
                              ELSE ReadResult("",
                                     Some(MarshalProps([record EXCEPT
                                                          !.Name = normalizedName])))

----------------------------------------------------------------------------
(* Plugin.Update *)

Update(config, id, raw) ==
    LET props == UnmarshalProps(raw)
        record == RecordOf(Some(id), props)
        param == RecordParam(record)
        updated == recordFromResponse(id, ProviderRecord(param.body[1]), record.ZoneID)
    IN
    /\ req' = Request("Update", config, Some(id), raw)
    /\ UNCHANGED <<apiToken, zoneApex, nextID>>
    /\ IF ~props.ok
       THEN /\ res' = Failure("Update", "InvalidRequest")
            /\ calls' = <<>>
            /\ UNCHANGED zone
       ELSE IF NewClientFails
       THEN /\ res' = Failure("Update", "InvalidCredentials")
            /\ calls' = <<>>
            /\ UNCHANGED zone
       ELSE IF param.err
       THEN /\ res' = Failure("Update", MapErrorCode(UnsupportedError))
            /\ calls' = <<>>
            /\ UNCHANGED zone
       ELSE \E o \in Outcomes :
            /\ RecordOutcome(record.ZoneID, id, o)
            /\ calls' = <<Call("Records.Update", Some(id), param.body, o)>>
            /\ IF o # Ok
               THEN /\ res' = Failure("Update", MapErrorCode(o))
                    /\ UNCHANGED zone
               ELSE /\ zone' = [zone EXCEPT ![id] = ProviderRecord(param.body[1])]
                    /\ res' = Progress("Update", "Success", "", updated.ID,
                                       Some(MarshalProps(ReportedProps(updated, props))))

----------------------------------------------------------------------------
(* Plugin.Delete *)

\* variant: a failed delete call is issued once more
Delete_retry(config, id) ==
    LET cfg == parseTargetConfig(config) IN
    /\ req' = Request("Delete", config, Some(id), MalformedJSON)
    /\ UNCHANGED <<apiToken, zoneApex, nextID>>
    /\ IF cfg.err \/ cfg.ZoneID = "" \/ NewClientFails
       THEN /\ res' = Failure("Delete", "InvalidRequest")
            /\ calls' = <<>>
            /\ UNCHANGED zone
       ELSE \E o1, o2 \in DeleteOutcomes :
            /\ o1 # Ok /\ RecordOutcome(cfg.ZoneID, id, o1)
            /\ RecordOutcome(cfg.ZoneID, id, o2)
            /\ calls' = <<Call("Records.Delete", Some(id), None, o1),
                          Call("Records.Delete", Some(id), None, o2)>>
            /\ zone' = IF o2 = Ok THEN [i \in DOMAIN zone \ {id} |-> zone[i]] ELSE zone
            /\ res' = IF o2 = Ok \/ IsNotFound(o2)
                      THEN Progress("Delete", "Success", "", None, None)
                      ELSE Failure("Delete", MapErrorCode(o2))

Delete(config, id) ==
    LET cfg == parseTargetConfig(config) IN
    /\ req' = Request("Delete", config, Some(id), MalformedJSON)
    /\ UNCHANGED <<apiToken, zoneApex, nextID>>
    /\ IF cfg.err \/ cfg.ZoneID = ""
       THEN /\ res' = Failure("Delete", "InvalidRequest")
            /\ calls' = <<>>
            /\ UNCHANGED zone
       ELSE IF NewClientFails
       THEN /\ res' = Failure("Delete", "InvalidCredentials")
            /\ calls' = <<>>
            /\ UNCHANGED zone
       ELSE \E o \in DeleteOutcomes :
            /\ RecordOutcome(cfg.ZoneID, id, o)
            /\ calls' = <<Call("Records.Delete", Some(id), None, o)>>
            /\ IF o # Ok
               THEN /\ UNCHANGED zone
                    /\ res' = IF IsNotFound(o)
                              THEN Progress("Delete", "Success", "", None, None)
                              ELSE Failure("Delete", MapErrorCode(o))
               ELSE /\ zone' = [i \in DOMAIN zone \ {id} |-> zone[i]]
                    /\ res' = Progress("Delete", "Success", "", None, None)

----------------------------------------------------------------------------
(* Plugin.Status *)

Status ==
    /\ req' = Request("Status", MalformedConfig, None, MalformedJSON)
    /\ res' = Progress("CheckStatus", "Success", "", None, None)
    /\ calls' = <<>>
    /\ UNCHANGED <<apiToken, zoneApex, zone, nextID>>

----------------------------------------------------------------------------
(* Client.ListRecords and Plugin.List *)

Digits == <<"0", "1", "2", "3", "4", "5", "6", "7", "8", "9">>
IsDigit(c) == \E d \in 1..10 : Digits[d] = c
DigitValue(c) == (CHOOSE d \in 1..10 : Digits[d] = c) - 1

RECURSIVE Pow10(_)
Pow10(n) == IF n = 0 THEN 1 ELSE 10 * Pow10(n - 1)

RECURSIVE DecimalValue(_)
DecimalValue(ds) ==
    IF ds = <<>> THEN 0
    ELSE 10 * DecimalValue(SubSeq(ds, 1, Len(ds) - 1)) + DigitValue(ds[Len(ds)])

\* strconv.ParseFloat on decimal notation: an optional sign, digits with at most one
\* decimal point and at least one digit; the value is num/den
ParseFloat(s) ==
    LET signed == s # <<>> /\ s[1] \in {"-", "+"}
        body == IF signed THEN SubSeq(s, 2, Len(s)) ELSE s
        dots == { i \in 1..Len(body) : body[i] = "." }
        dot == IF dots = {} THEN Len(body) + 1 ELSE CHOOSE i \in dots : TRUE
        int == SubSeq(body, 1, dot - 1)
        frac == SubSeq(body, dot + 1, Len(body))
        wellformed == /\ Cardinality(dots) <= 1
                      /\ Len(int) + Len(frac) >= 1
                      /\ \A i \in 1..Len(int) : IsDigit(int[i])
                      /\ \A i \in 1..Len(frac) : IsDigit(frac[i])
        magnitude == DecimalValue(int \o frac)
    IN IF ~wellformed THEN [err |-> TRUE, num |-> 0, den |-> 1]
       ELSE [err |-> FALSE,
             num |-> IF signed /\ s[1] = "-" THEN 0 - magnitude ELSE magnitude,
             den |-> Pow10(Len(frac))]

\* strconv.FormatInt(n, 10) for n >= 0
RECURSIVE FormatInt(_)
FormatInt(n) ==
    IF n < 10 THEN <<Digits[n + 1]>>
    ELSE FormatInt(n \div 10) \o <<Digits[(n % 10) + 1]>>

\* the page number ListRecords puts in the request: num/den, or unset
PageParam(pageToken) ==
    IF pageToken # None /\ pageToken[1] # <<>>
    THEN LET page == ParseFloat(pageToken[1]) IN
         IF ~page.err /\ page.num >= page.den
         THEN Some([num |-> page.num, den |-> page.den])
         ELSE None
    ELSE None

\* the NativeIDs of the zone in the provider's order
SortedIDs(ids) ==
    IF ids = {} THEN <<>>
    ELSE LET greatest == CHOOSE i \in ids : \A j \in ids : j <= i
             Present(i) == i \in ids
         IN SelectSeq([i \in 1..greatest |-> i], Present)

\* the provider serves page p of per_page records; a page number that is unset is
\* page 1, one that is no integer is served as its integer part
ProviderPage(pageParam) ==
    IF pageParam = None THEN 1 ELSE pageParam[1].num \div pageParam[1].den

PageItems(all, page, perPage) ==
    SubSeq(all, (page - 1) * perPage + 1,
           IF page * perPage < Len(all) THEN page * perPage ELSE Len(all))

DefaultPageSize == 100

\* the per_page parameter: the requested page size, the default when the request
\* gives none
PerPage(pageSize) == IF pageSize > 0 THEN pageSize ELSE DefaultPageSize

\* variant: a next-page token is returned whenever the page holds a record
NextToken_nonEmpty(count, perPage, page) ==
    IF count > 0 THEN Some(FormatInt(page + 1)) ELSE None

\* variant: the token names the page just served
NextToken_samePage(count, perPage, page) ==
    IF count = perPage THEN Some(FormatInt(page)) ELSE None

\* the next-page token: the page after the one the provider served, when that page
\* was full
NextToken(count, perPage, page) ==
    IF count = perPage THEN Some(FormatInt(page + 1)) ELSE None

ListRequest(config, pageToken, pageSize) ==
    [op |-> "List", config |-> config, nativeID |-> None, props |-> MalformedJSON,
     pageToken |-> pageToken, pageSize |-> pageSize]

ListResult(ids, nextToken) ==
    [op |-> "List", status |-> "", errorCode |-> "", nativeID |-> None,
     props |-> None, nativeIDs |-> ids, nextPageToken |-> nextToken,
     null |-> FALSE, err |-> Ok]

\* variant: a failed List hands the page token back for another attempt
ListFailure_withToken == ListResult(<<>>, Some(<<"1">>))

\* the result of a List that failed: the empty list, no token, no error code
ListFailure == ListResult(<<>>, None)

List(config, pageToken, pageSize) ==
    LET cfg == parseTargetConfig(config)
        perPage == PerPage(pageSize)
        pageParam == PageParam(pageToken)
        page == ProviderPage(pageParam)
        result == PageItems(SortedIDs(DOMAIN zone), page, perPage)
    IN
    /\ req' = ListRequest(config, pageToken, pageSize)
    /\ UNCHANGED <<apiToken, zoneApex, zone, nextID>>
    /\ IF cfg.err \/ cfg.ZoneID = ""
       THEN /\ res' = ListFailure
            /\ calls' = <<>>
       ELSE IF NewClientFails
       THEN /\ res' = ListFailure
            /\ calls' = <<>>
       ELSE \E o \in Outcomes :
            /\ o = Ok => cfg.ZoneID = ZoneID
            /\ calls' = <<[api |-> "Records.List", id |-> None, body |-> None,
                           page |-> pageParam, perPage |-> perPage, answer |-> o]>>
            /\ res' = IF o # Ok THEN ListFailure
                      ELSE ListResult(result, NextToken(Len(result), perPage, page))

\* the page tokens and page sizes the host sends with List
PageTokenInputs == { None, Some(<<"2">>), Some(<<"x">>) }
PageSizeInputs == {0, 1}

----------------------------------------------------------------------------
(* The specification *)

NoRequest == Request("", MalformedConfig, None, MalformedJSON)
NoResult == Progress("", "", "", None, None)

ValidConfig == ConfigJSON(Some(ZoneID))

Init ==
    /\ apiToken \in {"", "token"}
    /\ zoneApex = ZoneDomain
    /\ zone = <<>>
    /\ nextID = 1
    /\ req = NoRequest
    /\ res = NoResult
    /\ calls = <<>>

Next ==
    \/ \E raw \in PropsInputs : Create(ValidConfig, raw)
    \/ \E config \in ConfigInputs, id \in IDs : Read(config, id)
    \/ \E id \in IDs, raw \in PropsInputs : Update(ValidConfig, id, raw)
    \/ \E config \in ConfigInputs, id \in IDs : Delete(config, id)
    \/ Status
    \/ \E config \in ConfigInputs, pageToken \in PageTokenInputs,
          pageSize \in PageSizeInputs : List(config, pageToken, pageSize)

Spec == Init /\ [][Next]_vars

----------------------------------------------------------------------------
(* The operations under every target configuration *)

\* the properties sent with Create and Update: an A record and the apex MX record
ConfigProps ==
    { PropsJSON(Some("A"), Some(<<"w">>), Some("c1"), None, None, None),
      PropsJSON(Some("MX"), Some(AtName), Some("c1"), None, Some(10), None) }

NextConfig ==
    \/ \E config \in ConfigInputs, raw \in ConfigProps : Create(config, raw)
    \/ \E config \in ConfigInputs, id \in IDs : Read(config, id)
    \/ \E config \in ConfigInputs, id \in IDs, raw \in ConfigProps :
          Update(config, id, raw)
    \/ \E config \in ConfigInputs, id \in IDs : Delete(config, id)
    \/ \E config \in ConfigInputs, pageToken \in PageTokenInputs,
          pageSize \in PageSizeInputs : List(config, pageToken, pageSize)

SpecConfig == Init /\ [][NextConfig]_vars

----------------------------------------------------------------------------
(* Creating and reading records by name, in zones with different apex domains *)

\* one A record per short name, and the apex MX record
NameInputs ==
    { PropsJSON(Some("A"), Some(n), Some("c1"), None, None, None) : n \in ShortNames }
    \cup { PropsJSON(Some("MX"), Some(AtName), Some("c1"), None, Some(10), None) }

InitNames ==
    /\ apiToken = "token"
    /\ zoneApex \in ZoneDomains
    /\ zone = <<>>
    /\ nextID = 1
    /\ req = NoRequest
    /\ res = NoResult
    /\ calls = <<>>

NextNames ==
    \/ \E raw \in NameInputs : Create(ValidConfig, raw)
    \/ \E id \in IDs : Read(ValidConfig, id)

SpecNames == InitNames /\ [][NextNames]_vars

----------------------------------------------------------------------------
(* Listing a zone that holds records: pages requested one after the other *)

\* number of records of the listed zone, and the largest page size requested
MaxListRecords == 5
MaxPageSize == 3

\* the listed zone holds a few records, or exactly one page of the default size
ListZoneSizes == (0..MaxListRecords) \cup {DefaultPageSize}
ListSizeInputs == {-1, 0} \cup (1..MaxPageSize)

\* page tokens that are not the decimal form of an integer >= 1
MalformedTokens ==
    { Some(<<>>), Some(<<"x">>), Some(<<"0">>), Some(<<"-", "1">>),
      Some(<<"2", ".", "5">>), Some(<<"3", "a", "b", "c">>) }

\* a record the zone held before the plugin started
ListedRecord ==
    [Name |-> Denormalize(<<"w">>, ZoneDomain), Type |-> "A", Content |-> "c1",
     TTL |-> 1, Proxied |-> FALSE, Comment |-> "", Priority |-> None]

\* the first List of a discovery: no page token
ListStart == \E pageSize \in ListSizeInputs : List(ValidConfig, None, pageSize)

\* the host feeds the next-page token of the previous List into the next one
ListNext ==
    /\ res.op = "List" /\ res.nextPageToken # None
    /\ List(ValidConfig, res.nextPageToken, req.pageSize)

\* a List with a page token no List returned
ListAt ==
    \E pageToken \in MalformedTokens, pageSize \in ListSizeInputs :
        List(ValidConfig, pageToken, pageSize)

\* the largest page the provider serves: every requested size in full, or less
\* than some of the sizes requested
PageLimits == {DefaultPageSize} \cup (1..MaxPageSize)

\* the records of page p when the provider serves at most limit records a page
ServedPage(all, page, perPage, limit) ==
    PageItems(all, page, IF perPage < limit THEN perPage ELSE limit)

\* the NativeIDs the host collects by calling List with the token of the previous
\* List until a List returns none; more is the number of calls still allowed
RECURSIVE Enumerate(_, _, _, _, _)
Enumerate(all, pageToken, pageSize, limit, more) ==
    LET perPage == PerPage(pageSize)
        page == ProviderPage(PageParam(pageToken))
        result == ServedPage(all, page, perPage, limit)
        nextToken == NextToken(Len(result), perPage, page)
    IN IF nextToken = None \/ more = 0 THEN result
       ELSE result \o Enumerate(all, nextToken, pageSize, limit, more - 1)

\* a discovery: the zone enumerated from the first page to the page without token
Discover ==
    LET all == SortedIDs(DOMAIN zone)
    IN \E pageSize \in 1..MaxPageSize, limit \in PageLimits :
        /\ req' = [ListRequest(ValidConfig, None, pageSize) EXCEPT
                      !.op = "Discover", !.nativeID = Some(limit)]
        /\ res' = [ListResult(Enumerate(all, None, pageSize, limit, Len(all) + 1),
                              None) EXCEPT !.op = "Discover"]
        /\ calls' = <<>>
        /\ UNCHANGED <<apiToken, zoneApex, zone, nextID>>

InitList ==
    /\ apiToken = "token"
    /\ zoneApex = ZoneDomain
    /\ \E n \in ListZoneSizes :
          /\ zone = [i \in 1..n |-> ListedRecord]
          /\ nextID = n + 1
    /\ req = NoRequest
    /\ res = NoResult
    /\ calls = <<>>

NextList ==
    \/ ListStart
    \/ ListNext
    \/ ListAt

SpecList == InitList /\ [][NextList]_vars

\* the host discovering a zone: page by page, or a whole enumeration at once
NextDiscover ==
    \/ ListStart
    \/ ListNext
    \/ Discover

InitDiscover ==
    /\ apiToken = "token"
    /\ zoneApex = ZoneDomain
    /\ \E n \in 0..MaxListRecords :
          /\ zone = [i \in 1..n |-> ListedRecord]
          /\ nextID = n + 1
    /\ req = NoRequest
    /\ res = NoResult
    /\ calls = <<>>

SpecDiscover == InitDiscover /\ [][NextDiscover]_vars

----------------------------------------------------------------------------
(* The name normalizers as functions of a provider name and a zone domain *)

\* length of the names the normalizers are applied to
MaxNameLen == 4

NameChars == {"a", "b", "."}

\* every string of at most n characters
Strings(n) == UNION { [1..k -> NameChars] : k \in 0..n }

\* a domain name: non-empty labels separated by single dots
IsDomainName(s) ==
    /\ s # <<>>
    /\ s[1] # "." /\ s[Len(s)] # "."
    /\ \A i \in 1..(Len(s) - 1) : ~(s[i] = "." /\ s[i + 1] = ".")

DomainNames == { s \in Strings(MaxNameLen) : IsDomainName(s) }

\* the name part of recordToProperties: the suffix is trimmed first and the
\* result compared with the zone name
recordToPropertiesName(name, zoneName) ==
    IF zoneName # <<>>
    THEN LET trimmed == TrimSuffix(name, <<".">> \o zoneName)
         IN IF trimmed = zoneName THEN AtName ELSE trimmed
    ELSE name

NameArgs(name, zoneDomain) ==
    [op |-> "", name |-> name, zoneDomain |-> zoneDomain]
NameResult(op, fqdn, name) == [op |-> op, fqdn |-> fqdn, name |-> name]

\* NormalizeName applied to the provider name
ApplyNormalizeName ==
    /\ res.op = ""
    /\ res' = NameResult("NormalizeName", req.name,
                         NormalizeName(req.name, req.zoneDomain))
    /\ UNCHANGED <<apiToken, zoneApex, zone, nextID, req, calls>>

\* recordToProperties applied to a record with the provider name
ApplyRecordToProperties ==
    /\ res.op = ""
    /\ res' = NameResult("recordToProperties", req.name,
                         recordToPropertiesName(req.name, req.zoneDomain))
    /\ UNCHANGED <<apiToken, zoneApex, zone, nextID, req, calls>>

\* a short name sent to the provider and the stored name read back through
\* NormalizeName
RoundTrip ==
    /\ res.op = ""
    /\ req.name \in DomainNames \cup {AtName}
    /\ LET fqdn == Denormalize(req.name, req.zoneDomain)
       IN res' = NameResult("RoundTrip", fqdn, NormalizeName(fqdn, req.zoneDomain))
    /\ UNCHANGED <<apiToken, zoneApex, zone, nextID, req, calls>>

InitNormalize ==
    /\ apiToken = "token"
    /\ zoneApex = ZoneDomain
    /\ zone = <<>>
    /\ nextID = 1
    /\ \E name \in Strings(MaxNameLen) \cup {AtName}, zoneDomain \in DomainNames :
          req = NameArgs(name, zoneDomain)
    /\ res = NameResult("", <<>>, <<>>)
    /\ calls = <<>>

NextNormalize ==
    \/ ApplyNormalizeName
    \/ ApplyRecordToProperties
    \/ RoundTrip

SpecNormalize == InitNormalize /\ [][NextNormalize]_vars

----------------------------------------------------------------------------
(* The error classifier as a function of the error of a provider call *)

\* the HTTP statuses a provider API error can carry
StatusCodes == 300..599

ClassifierInputs ==
    { ApiError(status, text) : status \in StatusCodes, text \in BOOLEAN }
    \cup { OtherError(text) : text \in BOOLEAN }

ErrorArgs(err) == [op |-> "", err |-> err]
ErrorResult(op, code) == [op |-> op, code |-> code, notFound |-> FALSE]

ApplyMapErrorCode ==
    /\ res.op = ""
    /\ res' = ErrorResult("MapErrorCode", MapErrorCode(req.err))
    /\ UNCHANGED <<apiToken, zoneApex, zone, nextID, req, calls>>

ApplyIsNotFound ==
    /\ res.op = ""
    /\ res' = [ErrorResult("IsNotFound", "") EXCEPT !.notFound = IsNotFound(req.err)]
    /\ UNCHANGED <<apiToken, zoneApex, zone, nextID, req, calls>>

InitClassify ==
    /\ apiToken = "token"
    /\ zoneApex = ZoneDomain
    /\ zone = <<>>
    /\ nextID = 1
    /\ \E err \in ClassifierInputs : req = ErrorArgs(err)
    /\ res = ErrorResult("", "")
    /\ calls = <<>>

NextClassify ==
    \/ ApplyMapErrorCode
    \/ ApplyIsNotFound

SpecClassify == InitClassify /\ [][NextClassify]_vars

----------------------------------------------------------------------------
(* The property codec as functions of a properties payload *)

\* DNSRecordProperties with its defaults, and the error of a failed parse
ParseError == [err |-> TRUE, props |-> None]
Parsed(props) == [err |-> FALSE, props |-> Some(props)]

\* parseProperties: defaults ttl = 1 and proxied = false, then json.Unmarshal, then
\* the required fields
parseProperties(raw) ==
    IF ~raw.wellformed THEN ParseError
    ELSE LET props == [RecordType |-> OrZero(raw.record_type, ""),
                       Name |-> OrZero(raw.name, <<>>),
                       Content |-> OrZero(raw.content, ""),
                       TTL |-> OrZero(raw.ttl, 1),
                       Proxied |-> OrZero(raw.proxied, FALSE),
                       Priority |-> raw.priority,
                       Comment |-> raw.comment]
         IN IF props.RecordType = "" THEN ParseError
            ELSE IF props.Name = <<>> THEN ParseError
            ELSE IF props.Content = "" THEN ParseError
            ELSE Parsed(props)

\* validateProperties: TRUE when it returns an error
validateProperties(props) ==
    IF props.RecordType \notin SupportedTypes THEN TRUE
    ELSE IF props.RecordType \in PriorityTypes /\ props.Priority = None THEN TRUE
    ELSE IF props.Proxied /\ props.RecordType \notin ProxyableTypes THEN TRUE
    ELSE FALSE

\* variant: comment is left out when it is empty, as omitempty does for a plain string
propertiesToJSON_commentOmitEmpty(props) ==
    [wellformed |-> TRUE, zone_id |-> None, name |-> Some(props.Name),
     record_type |-> Some(props.RecordType), content |-> Some(props.Content),
     ttl |-> Some(props.TTL), proxied |-> Some(props.Proxied),
     comment |-> IF props.Comment = Some("") THEN None ELSE props.Comment,
     priority |-> props.Priority]

\* propertiesToJSON: json.Marshal of DNSRecordProperties; priority and comment are
\* pointers with omitempty, left out only when nil
propertiesToJSON(props) ==
    [wellformed |-> TRUE, zone_id |-> None, name |-> Some(props.Name),
     record_type |-> Some(props.RecordType), content |-> Some(props.Content),
     ttl |-> Some(props.TTL), proxied |-> Some(props.Proxied),
     comment |-> props.Comment, priority |-> props.Priority]

\* the payloads the codec is applied to: every member omitted, empty or given
CodecTypes == {None, Some("")} \cup { Some(t) : t \in SupportedTypes \cup {"PTR"} }
CodecInputs ==
    { [PropsJSON(t, n, c, px, pr, cm) EXCEPT !.ttl = ttl] :
        t \in CodecTypes,
        n \in {None, Some(<<>>), Some(<<"w">>)},
        c \in {None, Some(""), Some("c1")},
        px \in {None, Some(TRUE), Some(FALSE)},
        pr \in {None, Some(0), Some(10)},
        cm \in {None, Some(""), Some("note")},
        ttl \in {None, Some(0), Some(1), Some(300)} }
    \cup { MalformedJSON }

CodecArgs(raw) == [op |-> "", raw |-> raw]
CodecResult(op, err, props, again) ==
    [op |-> op, err |-> err, props |-> props, again |-> again]

\* parseProperties applied to the payload
ApplyParseProperties ==
    /\ res.op = ""
    /\ LET parsed == parseProperties(req.raw)
       IN res' = CodecResult("parseProperties", parsed.err, parsed.props, None)
    /\ UNCHANGED <<apiToken, zoneApex, zone, nextID, req, calls>>

\* the decoding Create and Update apply to the payload
ApplyUnmarshal ==
    /\ res.op = ""
    /\ LET props == UnmarshalProps(req.raw)
       IN res' = CodecResult("Unmarshal", ~props.ok,
                             IF props.ok THEN Some(props) ELSE None, None)
    /\ UNCHANGED <<apiToken, zoneApex, zone, nextID, req, calls>>

\* validateProperties applied to the parsed payload
ApplyValidateProperties ==
    /\ res.op = ""
    /\ ~parseProperties(req.raw).err
    /\ LET props == parseProperties(req.raw).props
       IN res' = CodecResult("validateProperties", validateProperties(props[1]),
                             props, None)
    /\ UNCHANGED <<apiToken, zoneApex, zone, nextID, req, calls>>

\* properties serialized with propertiesToJSON and parsed again
ApplyRoundTrip ==
    /\ res.op = ""
    /\ ~parseProperties(req.raw).err
    /\ LET props == parseProperties(req.raw).props
           again == parseProperties(propertiesToJSON(props[1]))
       IN res' = CodecResult("RoundTrip", again.err, props, again.props)
    /\ UNCHANGED <<apiToken, zoneApex, zone, nextID, req, calls>>

\* dnsRecordProperties serialized with json.Marshal and decoded again
ApplyRoundTripRecord ==
    /\ res.op = ""
    /\ UnmarshalProps(req.raw).ok
    /\ \E id \in {None, Some(1)} :
          LET props == [UnmarshalProps(req.raw) EXCEPT !.ID = id]
              again == UnmarshalProps(MarshalProps(props))
          IN res' = CodecResult("RoundTripRecord", ~again.ok, Some(props),
                                IF again.ok THEN Some(again) ELSE None)
    /\ UNCHANGED <<apiToken, zoneApex, zone, nextID, req, calls>>

InitCodec ==
    /\ apiToken = "token"
    /\ zoneApex = ZoneDomain
    /\ zone = <<>>
    /\ nextID = 1
    /\ \E raw \in CodecInputs : req = CodecArgs(raw)
    /\ res = CodecResult("", FALSE, None, None)
    /\ calls = <<>>

NextCodec ==
    \/ ApplyParseProperties
    \/ ApplyUnmarshal
    \/ ApplyValidateProperties
    \/ ApplyRoundTrip
    \/ ApplyRoundTripRecord

SpecCodec == InitCodec /\ [][NextCodec]_vars

----------------------------------------------------------------------------
(* Calls of the host running concurrently: two Deletes, a Read and a List on *)
(* one NativeID.  A handler is three steps: it starts, its provider call is  *)
(* served, it returns.  Here req, res and calls hold one entry per call of   *)
(* the host; the provider answers from the zone as it is when it serves.     *)

Deleters == {"d1", "d2"}
Reader == "r"
Lister == "l"
Procs == Deleters \cup {Reader, Lister}

\* the NativeID all four calls are about
TargetID == 1

\* a call the host has not made yet, and one it made: its request and the calls
\* that had returned when it started
Idle == [request |-> NoRequest, after |-> {}]
Returned == { p \in Procs : res[p] # NoResult }
Started(request) == [request |-> request, after |-> Returned]

\* a provider call that was served, with what the provider sent back
Served(call, sent) == [call |-> call, sent |-> sent]

\* the provider's answer for one record: a 404 when the zone does not hold it
ProviderAnswer(zoneID, id) == IF Exists(zoneID, id) THEN Ok ELSE ApiError(404, TRUE)

\* the steps of a handler in order
CanStart(p) == req[p] = Idle
CanCall(p) == req[p] # Idle /\ calls[p] = <<>> /\ res[p] = NoResult
CanReturn(p) == calls[p] # <<>> /\ res[p] = NoResult

\* variant: a record the provider reports missing fails the Delete
DeleteResult_strict(o) ==
    IF o = Ok THEN Progress("Delete", "Success", "", None, None)
    ELSE Failure("Delete", MapErrorCode(o))

\* what Delete returns for the answer of the provider's delete call
DeleteResult(o) ==
    IF o # Ok
    THEN IF IsNotFound(o) THEN Progress("Delete", "Success", "", None, None)
         ELSE Failure("Delete", MapErrorCode(o))
    ELSE Progress("Delete", "Success", "", None, None)

DeleteStart(p) ==
    LET cfg == parseTargetConfig(ValidConfig) IN
    /\ CanStart(p)
    /\ req' = [req EXCEPT ![p] = Started(Request("Delete", ValidConfig,
                                                 Some(TargetID), MalformedJSON))]
    /\ res' = [res EXCEPT ![p] =
                 IF cfg.err \/ cfg.ZoneID = "" THEN Failure("Delete", "InvalidRequest")
                 ELSE IF NewClientFails THEN Failure("Delete", "InvalidCredentials")
                 ELSE NoResult]
    /\ UNCHANGED <<apiToken, zoneApex, zone, nextID, calls>>

\* the provider serves the delete: the record is removed and the answer is sent in
\* one step
DeleteCall(p) ==
    LET cfg == parseTargetConfig(req[p].request.config)
        id == req[p].request.nativeID[1]
        o == ProviderAnswer(cfg.ZoneID, id)
    IN
    /\ CanCall(p)
    /\ calls' = [calls EXCEPT ![p] =
                   <<Served(Call("Records.Delete", Some(id), None, o), None)>>]
    /\ zone' = IF o = Ok THEN [i \in DOMAIN zone \ {id} |-> zone[i]] ELSE zone
    /\ UNCHANGED <<apiToken, zoneApex, nextID, req, res>>

DeleteReturn(p) ==
    /\ CanReturn(p)
    /\ res' = [res EXCEPT ![p] = DeleteResult(calls[p][1].call.answer)]
    /\ UNCHANGED <<apiToken, zoneApex, zone, nextID, req, calls>>

ReadStart ==
    LET cfg == parseTargetConfig(ValidConfig) IN
    /\ CanStart(Reader)
    /\ req' = [req EXCEPT ![Reader] = Started(Request("Read", ValidConfig,
                                                      Some(TargetID), MalformedJSON))]
    /\ res' = [res EXCEPT ![Reader] =
                 IF cfg.err \/ cfg.ZoneID = "" THEN ReadResult("InvalidRequest", None)
                 ELSE IF NewClientFails THEN ReadResult("InvalidCredentials", None)
                 ELSE NoResult]
    /\ UNCHANGED <<apiToken, zoneApex, zone, nextID, calls>>

\* the provider serves the record fetch
ReadCall ==
    LET cfg == parseTargetConfig(req[Reader].request.config)
        id == req[Reader].request.nativeID[1]
        o == ProviderAnswer(cfg.ZoneID, id)
    IN
    /\ CanCall(Reader)
    /\ calls' = [calls EXCEPT ![Reader] =
                   <<Served(Call("Records.Get", Some(id), None, o),
                            IF o = Ok THEN Some(zone[id]) ELSE None)>>]
    /\ UNCHANGED <<apiToken, zoneApex, zone, nextID, req, res>>

\* the rest of Read: the error of the fetch classified, or the zone's domain
\* looked up and the properties reported
ReadReturn ==
    LET cfg == parseTargetConfig(req[Reader].request.config)
        id == req[Reader].request.nativeID[1]
        o == calls[Reader][1].call.answer
        record == recordFromResponse(id, calls[Reader][1].sent[1], cfg.ZoneID)
        normalizedName == NormalizeName(record.Name, zoneApex)
    IN
    /\ CanReturn(Reader)
    /\ IF o # Ok
       THEN /\ res' = [res EXCEPT ![Reader] =
                         IF IsNotFound(o) THEN ReadResult("NotFound", None)
                         ELSE ReadResult(MapErrorCode(o), None)]
            /\ UNCHANGED calls
       ELSE /\ calls' = [calls EXCEPT ![Reader] =
                           Append(@, Served(Call("Zones.Get", None, None, Ok),
                                            Some(zoneApex)))]
            /\ res' = [res EXCEPT ![Reader] =
                         ReadResult("", Some(MarshalProps([record EXCEPT
                                                            !.Name = normalizedName])))]
    /\ UNCHANGED <<apiToken, zoneApex, zone, nextID, req>>

ConcurrentListStart ==
    LET cfg == parseTargetConfig(ValidConfig) IN
    /\ CanStart(Lister)
    /\ \E pageSize \in PageSizeInputs :
          req' = [req EXCEPT ![Lister] =
                    Started(ListRequest(ValidConfig, None, pageSize))]
    /\ res' = [res EXCEPT ![Lister] =
                 IF cfg.err \/ cfg.ZoneID = "" \/ NewClientFails THEN ListFailure
                 ELSE NoResult]
    /\ UNCHANGED <<apiToken, zoneApex, zone, nextID, calls>>

\* the provider serves the page of the zone as it is
ListCall ==
    LET request == req[Lister].request
        perPage == PerPage(request.pageSize)
        pageParam == PageParam(request.pageToken)
        result == PageItems(SortedIDs(DOMAIN zone), ProviderPage(pageParam), perPage)
    IN
    /\ CanCall(Lister)
    /\ calls' = [calls EXCEPT ![Lister] =
                   <<Served([api |-> "Records.List", id |-> None, body |-> None,
                             page |-> pageParam, perPage |-> perPage, answer |-> Ok],
                            result)>>]
    /\ UNCHANGED <<apiToken, zoneApex, zone, nextID, req, res>>

ListReturn ==
    LET served == calls[Lister][1]
        result == served.sent
    IN
    /\ CanReturn(Lister)
    /\ res' = [res EXCEPT ![Lister] =
                 ListResult(result, NextToken(Len(result), served.call.perPage,
                                              ProviderPage(served.call.page)))]
    /\ UNCHANGED <<apiToken, zoneApex, zone, nextID, req, calls>>

\* the zone holds up to MaxRecords records, or none: the target may be absent
InitConcurrent ==
    /\ apiToken = "token"
    /\ zoneApex = ZoneDomain
    /\ \E n \in 0..MaxRecords :
          /\ zone = [i \in 1..n |-> ListedRecord]
          /\ nextID = n + 1
    /\ req = [p \in Procs |-> Idle]
    /\ res = [p \in Procs |-> NoResult]
    /\ calls = [p \in Procs |-> <<>>]

NextConcurrent ==
    \/ \E p \in Deleters : DeleteStart(p)
    \/ \E p \in Deleters : DeleteCall(p)
    \/ \E p \in Deleters : DeleteReturn(p)
    \/ ReadStart
    \/ ReadCall
    \/ ReadReturn
    \/ ConcurrentListStart
    \/ ListCall
    \/ ListReturn

SpecConcurrent == InitConcurrent /\ [][NextConcurrent]_vars

----------------------------------------------------------------------------
(* Properties *)

\* the provider's answer to the n-th call of the most recent operation
Answered(n) == Len(calls) >= n
Answer(n) == calls[n].answer
Is404(err) == ~err.nil /\ err.api /\ err.status = 404

\* C1: whenever the provider answers Delete's call with an HTTP 404 error, Delete
\* returns status success and no error code, for every NativeID and also when the
\* record was already deleted before.
C1_DeleteNotFoundIsSuccess ==
    (res.op = "Delete" /\ Answered(1) /\ Is404(Answer(1)))
        => (res.status = "Success" /\ res.errorCode = "")

\* a repeated Delete: the record was created and removed, and this Delete got a 404
C1_Witness ==
    /\ res.op = "Delete" /\ Answered(1) /\ Is404(Answer(1))
    /\ res.status = "Success"
    /\ nextID > 1 /\ req.nativeID[1] \notin DOMAIN zone

\* C2: a Create or Update result with status failure carries no NativeID and no
\* resource properties; a NativeID comes only with status success.
C2_FailureHasNoNativeID ==
    res.op \in {"Create", "Update"} =>
        /\ res.status = "Failure" => (res.nativeID = None /\ res.props = None)
        /\ res.nativeID # None => res.status = "Success"

\* an Update of an existing record that failed at the provider
C2_Witness ==
    /\ res.op = "Update" /\ res.status = "Failure"
    /\ Answered(1) /\ ~Answer(1).nil
    /\ req.nativeID[1] \in DOMAIN zone

\* C3: Delete returns success only when the provider's delete call succeeded or was
\* answered with an HTTP 404; every other error of the call, also one whose text
\* mentions "404" or "not found", gives status failure with an error code.
C3_DeleteSuccessOnlyIfDeletedOrAbsent ==
    res.op = "Delete" =>
        /\ res.status = "Success" =>
              (Answered(1) /\ (Answer(1).nil \/ Is404(Answer(1))))
        /\ (Answered(1) /\ ~Answer(1).nil /\ ~Is404(Answer(1))) =>
              (res.status = "Failure" /\ res.errorCode # "")

\* a Delete that failed on an error that is no 404 but whose text mentions one
C3_Witness ==
    /\ res.op = "Delete" /\ Answered(1)
    /\ ~Answer(1).nil /\ ~Is404(Answer(1)) /\ Answer(1).text
    /\ res.status = "Failure"

\* the decoded properties of the most recent request
HasProps == req.op \in {"Create", "Update"} /\ req.props.wellformed
ReqType == OrZero(req.props.record_type, "")
ReqProxied == OrZero(req.props.proxied, FALSE)
ClientCreated == apiToken # ""
Rejected == res.status = "Failure" /\ res.errorCode = "InvalidRequest" /\ calls = <<>>

\* C4: Create with proxied = true and a record_type outside {A, AAAA, CNAME} returns
\* a failure result with error code InvalidRequest and makes no provider API call
\* (stated for a Create that has its API token).
C4_ProxiedOnNonProxyableRejected ==
    (res.op = "Create" /\ HasProps /\ ClientCreated
        /\ ReqProxied /\ ReqType \notin ProxyableTypes)
    => Rejected

\* C5: Create and Update with record_type MX or SRV and no priority return a failure
\* result with error code InvalidRequest and make no provider API call; no request
\* body carries a priority the caller did not supply.
C5_MissingPriorityRejected ==
    (res.op \in {"Create", "Update"} /\ HasProps /\ ClientCreated)
    => /\ (ReqType \in PriorityTypes /\ req.props.priority = None) => Rejected
       /\ \A n \in 1..Len(calls) :
             (calls[n].body # None /\ calls[n].body[1].Priority # None)
                => calls[n].body[1].Priority = req.props.priority

\* C6: Create and Update with a record_type outside the eight supported types return
\* a failure result with error code InvalidRequest and make no provider API call.
C6_UnsupportedTypeIsInvalidRequest ==
    (res.op \in {"Create", "Update"} /\ HasProps /\ ClientCreated
        /\ ReqType \notin SupportedTypes)
    => Rejected

\* a property set that meets the constraints of its record type
ValidForType(raw) ==
    /\ OrZero(raw.record_type, "") \in SupportedTypes
    /\ OrZero(raw.name, <<>>) # <<>>
    /\ OrZero(raw.content, "") # ""
    /\ (raw.priority # None) <=> (OrZero(raw.record_type, "") \in PriorityTypes)
    /\ OrZero(raw.proxied, FALSE) => OrZero(raw.record_type, "") \in ProxyableTypes

\* C7: for each of the eight record types, Create and Update with a property set
\* valid for the type build a provider request and issue the provider call.
C7_EightTypesReachProvider ==
    (res.op \in {"Create", "Update"} /\ HasProps /\ ClientCreated
        /\ ValidForType(req.props))
    => (calls # <<>> /\ calls[1].body # None /\ calls[1].body[1].Type = ReqType)

\* C8: the name and record_type the provider holds for a NativeID never change
\* while the record exists, whatever operations run.
C8_NameAndTypeNeverChange ==
    [][\A id \in DOMAIN zone \cap DOMAIN zone' :
          /\ zone'[id].Name = zone[id].Name
          /\ zone'[id].Type = zone[id].Type]_vars

\* C9: the properties a successful Create or Update returns carry the name of the
\* request properties, and those of Update carry the record_type the record had
\* before the Update.
C9_ReportedNameAndType ==
    [][(res'.op \in {"Create", "Update"} /\ res'.status = "Success")
          => /\ res'.props # None
             /\ res'.props[1].name = req'.props.name
             /\ res'.op = "Update" =>
                   res'.props[1].record_type = Some(zone[req'.nativeID[1]].Type)]_vars

\* C10: a successful Create with short name x followed by a successful Read of the
\* NativeID Create returned yields properties whose name is x; the provider holds
\* the zone domain for "@" and x.zone otherwise.
C10_ReadAfterCreateReturnsName ==
    [][(/\ res.op = "Create" /\ res.status = "Success"
        /\ res'.op = "Read" /\ req'.nativeID = res.nativeID
        /\ res'.errorCode = "")
          => /\ res'.props # None
             /\ res'.props[1].name = req.props.name
             /\ res'.props[1].name # None]_vars

\* a Read that reports "@" for the record the provider holds under the zone domain
C10_Witness ==
    /\ res.op = "Read" /\ res.props # None
    /\ res.props[1].name = Some(AtName)
    /\ zone[req.nativeID[1]].Name = zoneApex
    /\ Len(calls) = 2

C12_BothNormalizersAgreeWithCases ==
    (res.op \in {"NormalizeName", "recordToProperties"} /\ req.name # AtName)
    => /\ (res.name = AtName) <=> (req.name = req.zoneDomain)
       /\ HasSuffix(req.name, <<".">> \o req.zoneDomain)
             => res.name \o <<".">> \o req.zoneDomain = req.name
       /\ (req.name # req.zoneDomain
             /\ ~HasSuffix(req.name, <<".">> \o req.zoneDomain))
             => res.name = req.name

\* the three cases hold of NormalizeName alone
C12_NormalizeNameCases ==
    (res.op = "NormalizeName" /\ req.name # AtName)
    => /\ (res.name = AtName) <=> (req.name = req.zoneDomain)
       /\ HasSuffix(req.name, <<".">> \o req.zoneDomain)
             => res.name \o <<".">> \o req.zoneDomain = req.name
       /\ (req.name # req.zoneDomain
             /\ ~HasSuffix(req.name, <<".">> \o req.zoneDomain))
             => res.name = req.name

\* C13: a Read whose record fetch the provider answers with an HTTP 404 returns
\* error code NotFound and no properties; a Read result carries properties only
\* when it carries no error code.
C13_ReadNotFound ==
    res.op = "Read" =>
        /\ (Answered(1) /\ Is404(Answer(1)))
              => (res.errorCode = "NotFound" /\ res.props = None)
        /\ res.props # None => res.errorCode = ""

\* a Read of a record that was created and deleted, answered with a 404
C13_Witness ==
    /\ res.op = "Read" /\ Answered(1) /\ Is404(Answer(1))
    /\ res.errorCode = "NotFound"
    /\ nextID > 1 /\ req.nativeID[1] \notin DOMAIN zone

\* C14: the classifier maps a provider API error by its HTTP status: 400 to
\* InvalidRequest, 401 to InvalidCredentials, 403 to AccessDenied, 404 to NotFound,
\* 429 to Throttling, every status from 500 to 599 to ServiceInternalError, and
\* every other error to InternalFailure.
C14_ClassifierTable ==
    res.op = "MapErrorCode" =>
        res.code =
            IF ~req.err.api THEN "InternalFailure"
            ELSE CASE req.err.status = 400 -> "InvalidRequest"
                   [] req.err.status = 401 -> "InvalidCredentials"
                   [] req.err.status = 403 -> "AccessDenied"
                   [] req.err.status = 404 -> "NotFound"
                   [] req.err.status = 429 -> "Throttling"
                   [] req.err.status \in 500..599 -> "ServiceInternalError"
                   [] OTHER -> "InternalFailure"

\* the table holds of every status outside 500..599 and of the four statuses the
\* switch names
C14_ClassifierTableNamedStatuses ==
    (res.op = "MapErrorCode"
        /\ (req.err.api /\ req.err.status \in 500..599
               => req.err.status \in {500, 502, 503, 504}))
    => res.code =
            IF ~req.err.api THEN "InternalFailure"
            ELSE CASE req.err.status = 400 -> "InvalidRequest"
                   [] req.err.status = 401 -> "InvalidCredentials"
                   [] req.err.status = 403 -> "AccessDenied"
                   [] req.err.status = 404 -> "NotFound"
                   [] req.err.status = 429 -> "Throttling"
                   [] req.err.status \in 500..599 -> "ServiceInternalError"
                   [] OTHER -> "InternalFailure"

\* the provider error that ended the most recent operation, if one did
Failed == calls # <<>> /\ ~calls[Len(calls)].answer.nil
FailedWith == calls[Len(calls)].answer

\* C15: when the provider call of Create, Update, Delete or Read fails, the result
\* carries the error code the classifier assigns to that error (429 Throttling,
\* 403 AccessDenied, ...), and for Create, Update and Delete status failure; the
\* one exception is the 404 of Delete, which is success.
C15_FailureCarriesClassifiedCode ==
    (res.op \in {"Create", "Update", "Delete", "Read"} /\ Failed
        /\ ~(res.op = "Delete" /\ Is404(FailedWith)))
    => /\ res.errorCode = MapErrorCode(FailedWith)
       /\ res.errorCode # ""
       /\ (FailedWith.api /\ FailedWith.status = 429) => res.errorCode = "Throttling"
       /\ (FailedWith.api /\ FailedWith.status = 403) => res.errorCode = "AccessDenied"
       /\ res.op # "Read" => res.status = "Failure"

\* an Update of an existing record that the provider throttled
C15_Witness ==
    /\ res.op = "Update" /\ Failed
    /\ FailedWith.api /\ FailedWith.status = 429
    /\ res.errorCode = "Throttling"
    /\ req.nativeID[1] \in DOMAIN zone

Operations == {"Create", "Read", "Update", "Delete", "Status", "List"}

\* C19: every operation (Create, Read, Update, Delete, Status, List) returns, for
\* every input and provider outcome, a non-nil result together with a nil error,
\* and every failure result of Create, Update and Delete carries a non-empty error
\* code.
C19_FailuresAreData ==
    req.op \in Operations =>
        /\ ~res.null
        /\ res.err.nil
        /\ (req.op \in {"Create", "Update", "Delete"} /\ res.status # "Success")
              => (res.status = "Failure" /\ res.errorCode # "")

\* a Create whose provider call ended with an error that is no API error
C19_Witness ==
    /\ req.op = "Create" /\ Failed /\ ~FailedWith.api
    /\ ~res.null /\ res.err.nil
    /\ res.status = "Failure" /\ res.errorCode = "InternalFailure"

\* C20: one invocation of Create, Update, Delete or List issues at most one
\* provider call and one of Read at most two (the record fetch, then the zone
\* lookup); no call follows a call that failed.
C20_NoRetry ==
    /\ req.op \in {"Create", "Update", "Delete", "List"} => Len(calls) <= 1
    /\ req.op = "Read" =>
          /\ Len(calls) <= 2
          /\ Len(calls) >= 1 => calls[1].api = "Records.Get"
          /\ Len(calls) = 2 => calls[2].api = "Zones.Get"
    /\ req.op = "Status" => calls = <<>>
    /\ \A n \in 1..(Len(calls) - 1) : calls[n].answer.nil

\* a Delete whose only call failed with a throttling error
C20_Witness ==
    /\ req.op = "Delete" /\ Len(calls) = 1
    /\ ~calls[1].answer.nil /\ calls[1].answer.status = 429
    /\ res.status = "Failure"
    /\ req.nativeID[1] \in DOMAIN zone

\* a page token that is the decimal form of an integer >= 1
IsPageNumber(token) ==
    /\ token # <<>>
    /\ \A i \in 1..Len(token) : IsDigit(token[i])
    /\ DecimalValue(token) >= 1

\* the 1-based page index a request asks for: 1 without a token
FromStart == req.pageToken = None
AsksPage == FromStart \/ IsPageNumber(req.pageToken[1])
RequestedPage == IF FromStart THEN 1 ELSE DecimalValue(req.pageToken[1])
Listed == res.op = "List" /\ Answered(1) /\ Answer(1).nil

\* C16: List asks the provider for pages of 100 records when the request gives no
\* page size (page_size <= 0) and of page_size records otherwise; it returns a
\* next-page token exactly when the provider returned as many records as the page
\* size, and the token is then the decimal string of the requested page index + 1.
C16_PageSizeAndNextToken ==
    (res.op = "List" /\ Answered(1)) =>
        /\ calls[1].perPage = IF req.pageSize > 0 THEN req.pageSize ELSE 100
        /\ Answer(1).nil =>
              /\ (res.nextPageToken # None) <=> (Len(res.nativeIDs) = calls[1].perPage)
              /\ (res.nextPageToken # None /\ AsksPage)
                    => res.nextPageToken = Some(FormatInt(RequestedPage + 1))

\* a List without page size and token that got a full page of 100 and returns "2"
C16_Witness ==
    /\ Listed /\ req.pageSize <= 0 /\ FromStart
    /\ Len(res.nativeIDs) = 100
    /\ res.nextPageToken = Some(<<"2">>)

\* C17: in a zone of N records listed with page size s >= 1, starting without a
\* token and feeding each returned token into the next call, the call for page p
\* returns a token (for page p + 1) exactly while p <= N div s, so the call
\* number N div s + 1 is the last one; it holds the N mod s remaining records
\* (none when s divides N).
C17_PaginationTerminates ==
    (Listed /\ req.pageSize >= 1 /\ AsksPage) =>
        LET N == Cardinality(DOMAIN zone)
            s == req.pageSize
            p == RequestedPage
        IN /\ p <= (N \div s) + 1
           /\ (res.nextPageToken # None) <=> (p <= N \div s)
           /\ res.nextPageToken # None => res.nextPageToken = Some(FormatInt(p + 1))
           /\ Len(res.nativeIDs) = IF p <= N \div s THEN s ELSE N % s

\* 5 records and page size 2: the third call returns one record and no token
C17_Witness ==
    /\ Listed /\ Cardinality(DOMAIN zone) = 5 /\ req.pageSize = 2
    /\ req.pageToken = Some(<<"3">>)
    /\ Len(res.nativeIDs) = 1 /\ res.nextPageToken = None

\* C18: for every page token that is not the decimal form of an integer >= 1
\* (empty, non-numeric, "0", negative, fractional, numeric prefix), List asks the
\* provider for page 1 and returns that page.
C18_MalformedTokenIsPageOne ==
    (res.op = "List" /\ Answered(1) /\ ~AsksPage) =>
        /\ calls[1].page \in {None, Some([num |-> 1, den |-> 1])}
        /\ Answer(1).nil =>
              res.nativeIDs = PageItems(SortedIDs(DOMAIN zone), 1, calls[1].perPage)

\* the same for the tokens that are no number at all, "0" and negative numbers
C18_NonNumericTokenIsPageOne ==
    (res.op = "List" /\ Answered(1) /\ ~AsksPage
        /\ (ParseFloat(req.pageToken[1]).err \/ ParseFloat(req.pageToken[1]).num < 1))
    => /\ calls[1].page = None
       /\ Answer(1).nil =>
             res.nativeIDs = PageItems(SortedIDs(DOMAIN zone), 1, calls[1].perPage)

\* the members of the payload the codec was applied to, with the Go zero value for
\* an omitted one
RawType == OrZero(req.raw.record_type, "")
RawName == OrZero(req.raw.name, <<>>)
RawContent == OrZero(req.raw.content, "")
RawProxied == OrZero(req.raw.proxied, FALSE)

\* C21: validation accepts a property set exactly when record_type is one of the
\* eight supported types, priority is present exactly when record_type is MX or
\* SRV, and proxied is true only for A, AAAA or CNAME; every other combination is
\* rejected with an error.
C21_ValidateAcceptsExactlyValid ==
    res.op = "validateProperties" =>
        (~res.err <=>
            /\ RawType \in SupportedTypes
            /\ (req.raw.priority # None) <=> (RawType \in PriorityTypes)
            /\ RawProxied => RawType \in ProxyableTypes)

\* the same without the rule that rejects a priority on a type other than MX, SRV
C21_ValidateWithoutPriorityOnOtherTypes ==
    res.op = "validateProperties" =>
        (~res.err <=>
            /\ RawType \in SupportedTypes
            /\ (RawType \in PriorityTypes) => (req.raw.priority # None)
            /\ RawProxied => RawType \in ProxyableTypes)

\* what the claim expects of a parse: when it fails, and the properties otherwise
ParseMustFail ==
    \/ ~req.raw.wellformed
    \/ RawType = "" \/ RawName = <<>> \/ RawContent = ""
ParsedAsGiven(props) ==
    /\ props.RecordType = RawType
    /\ props.Name = RawName
    /\ props.Content = RawContent
    /\ props.TTL = OrZero(req.raw.ttl, 1)
    /\ props.Proxied = RawProxied
    /\ props.Priority = req.raw.priority

\* C22: parsing a properties payload fails when the payload is malformed or when
\* record_type, name or content is absent or empty; otherwise it returns every
\* supplied field as given, ttl 1 and proxied false when omitted, and priority and
\* comment absent when omitted.  Stated of parseProperties and of the decoding
\* Create and Update apply.
C22_ParseDefaultsAndRequiredFields ==
    res.op \in {"parseProperties", "Unmarshal"} =>
        /\ res.err <=> ParseMustFail
        /\ ~res.err =>
              /\ ParsedAsGiven(res.props[1])
              /\ IF res.op = "parseProperties"
                 THEN res.props[1].Comment = req.raw.comment
                 ELSE res.props[1].Comment = OrZero(req.raw.comment, "")

\* the same of parseProperties alone
C22_parsePropertiesDefaultsAndRequiredFields ==
    res.op = "parseProperties" =>
        /\ res.err <=> ParseMustFail
        /\ ~res.err =>
              /\ ParsedAsGiven(res.props[1])
              /\ res.props[1].Comment = req.raw.comment

\* C23: properties that are serialized and parsed again come back equal field by
\* field, also with ttl 0, priority 0 and an empty comment, and with absent
\* priority or comment staying absent.
C23_SerializeParseRoundTrip ==
    res.op \in {"RoundTrip", "RoundTripRecord"} =>
        /\ ~res.err
        /\ res.again = res.props

\* the round trip of properties with ttl 0, priority 0 and an empty comment
C23_Witness ==
    /\ res.op = "RoundTrip" /\ ~res.err
    /\ res.props[1].TTL = 0
    /\ res.props[1].Priority = Some(0)
    /\ res.props[1].Comment = Some("")
    /\ res.again = res.props

\* a target configuration that is malformed or names no zone
BadConfig(config) == ~config.wellformed \/ OrZero(config.zone_id, "") = ""

\* C24: Create, Read, Update, Delete and List reject a target configuration that is
\* malformed or has no zone_id: parsing it returns an error, Create, Read, Update
\* and Delete return error code InvalidRequest, and no provider call is made.
C24_BadConfigRejected ==
    (req.op \in {"Create", "Read", "Update", "Delete", "List"} /\ BadConfig(req.config))
    => /\ parseTargetConfig(req.config).err
       /\ calls = <<>>
       /\ req.op # "List" => res.errorCode = "InvalidRequest"

\* the same of Read, Delete and List, without the error of the parse
C24_BadConfigRejectedByReadDeleteList ==
    (req.op \in {"Read", "Delete", "List"} /\ BadConfig(req.config))
    => /\ calls = <<>>
       /\ req.op # "List" => res.errorCode = "InvalidRequest"

\* the NativeID of the record a successful Create, Update or Read reported
ReportedID == IF res.op = "Create" THEN res.nativeID[1] ELSE req.nativeID[1]

\* C25: the properties Create, Update and Read report keep unset and zero apart:
\* priority is absent exactly when the provider holds none, and a priority the
\* provider holds, also 0, is reported with its value; comment is absent exactly
\* when the provider holds none.
C25_PriorityAndCommentAsHeld ==
    (res.op \in {"Create", "Update", "Read"} /\ res.props # None)
    => /\ res.props[1].priority = zone[ReportedID].Priority
       /\ (res.props[1].comment = None) <=> (zone[ReportedID].Comment = "")

\* the same for every record whose priority is not 0
C25_NonZeroPriorityAsHeld ==
    (res.op \in {"Create", "Update", "Read"} /\ res.props # None
        /\ zone[ReportedID].Priority # Some(0))
    => /\ res.props[1].priority = zone[ReportedID].Priority
       /\ (res.props[1].comment = None) <=> (zone[ReportedID].Comment = "")

\* C26: Read asks the provider for the zone's domain first and for the record
\* second; when the zone lookup fails the record is not fetched.
C26_ReadFetchesZoneFirst ==
    (res.op = "Read" /\ calls # <<>>)
    => /\ calls[1].api = "Zones.Get"
       /\ Len(calls) = 2 => calls[2].api = "Records.Get"
       /\ (\E n \in 1..Len(calls) :
               calls[n].api = "Zones.Get" /\ ~calls[n].answer.nil)
             => (\A n \in 1..Len(calls) : calls[n].api # "Records.Get")

\* C27: Read reports NotFound only when the provider answered the fetch of the
\* record with "not found"; a failed zone lookup, also with an HTTP 404, does not
\* make Read report NotFound for a record the provider holds.
C27_NotFoundOnlyForTheRecord ==
    (res.op = "Read" /\ res.errorCode = "NotFound")
    => /\ Answered(1) /\ calls[1].api = "Records.Get" /\ Is404(Answer(1))
       /\ Len(calls) = 1
       /\ ~Exists(parseTargetConfig(req.config).ZoneID, req.nativeID[1])

\* C29: a List that fails (malformed target configuration, no zone_id, no
\* credentials, an error of the provider call) returns the empty NativeID list and
\* no next-page token, the result of a List of a zone without records.
C29_ListFailureIsEmptyList ==
    (res.op = "List" /\ (calls = <<>> \/ ~Answer(1).nil))
    => /\ res.nativeIDs = <<>>
       /\ res.nextPageToken = None
       /\ res.errorCode = ""

\* a List of a zone holding a record that the provider throttled
C29_Witness ==
    /\ res.op = "List" /\ Answered(1)
    /\ ~Answer(1).nil /\ Answer(1).status = 429
    /\ DOMAIN zone # {}
    /\ res.nativeIDs = <<>> /\ res.nextPageToken = None

\* the NativeIDs a discovery collected, as a set
Discovered == { res.nativeIDs[i] : i \in 1..Len(res.nativeIDs) }

\* C28: in a zone whose records do not change, following List's next-page tokens
\* from the first page to the page without a token returns every NativeID exactly
\* once, for every page size s >= 1, also one larger than the pages the provider
\* serves.
C28_EnumerationIsComplete ==
    res.op = "Discover" =>
        /\ Discovered = DOMAIN zone
        /\ Len(res.nativeIDs) = Cardinality(DOMAIN zone)

\* the same when the provider serves every page at the requested size
C28_EnumerationIsCompleteWhenServedInFull ==
    (res.op = "Discover" /\ req.nativeID[1] >= req.pageSize) =>
        /\ Discovered = DOMAIN zone
        /\ Len(res.nativeIDs) = Cardinality(DOMAIN zone)

\* a Delete, the Read or the List that has returned
DeleteReturned(p) == res[p].op = "Delete"
StartedAfterADelete(p) == req[p] # Idle /\ req[p].after \cap Deleters # {}
ListedIDs(p) == { res[p].nativeIDs[i] : i \in 1..Len(res[p].nativeIDs) }

\* C30: with a provider that deletes atomically and answers 404 for an absent
\* record, two concurrent Deletes of one NativeID both return success and leave the
\* record absent, in every interleaving; a Read of it started after either Delete
\* returned reports NotFound, and a List started after that does not hold it.
C30_ConcurrentDeletes ==
    /\ \A p \in Deleters :
          DeleteReturned(p) =>
             /\ res[p].status = "Success" /\ res[p].errorCode = ""
             /\ TargetID \notin DOMAIN zone
    /\ (StartedAfterADelete(Reader) /\ res[Reader].op = "Read") =>
          /\ res[Reader].errorCode = "NotFound"
          /\ res[Reader].props = None
    /\ (StartedAfterADelete(Lister) /\ res[Lister].op = "List") =>
          TargetID \notin ListedIDs(Lister)

\* both Deletes returned, one after the provider removed the record and one after
\* a 404, and the Read and the List that started afterwards returned too
C30_Witness ==
    /\ \A p \in Deleters : DeleteReturned(p)
    /\ \E p, q \in Deleters :
          /\ calls[p][1].call.answer = Ok
          /\ Is404(calls[q][1].call.answer)
    /\ StartedAfterADelete(Reader) /\ res[Reader].op = "Read"
    /\ StartedAfterADelete(Lister) /\ res[Lister].op = "List"

====
